---- MODULE Spec2Model ----
(***************************************************************************)
(* The HTTP client pipeline of frontend/src/api/config.ts: the `api`       *)
(* client (ky.create), its afterResponse hook (401-driven token refresh,   *)
(* camelCase transcoding), its beforeError hook (error normalisation) and  *)
(* refreshToken() of frontend/src/lib/authentication.ts.                   *)
(*                                                                         *)
(* Every caller request is a process; every `await` of the hooks is a      *)
(* step boundary, so concurrent requests interleave at the suspension      *)
(* points of the single-threaded event loop.                               *)
(***************************************************************************)
EXTENDS Integers, FiniteSets, Sequences, TLC

\* ---------------------------------------------------------------- bounds
NumCallers == 2

Callers == 1..NumCallers

\* The request id of the api.post("auth/token") call made by refreshToken().
RefreshReq == 0

\* ------------------------------------------------ JavaScript JSON values
\* A JSON field value, written as a tagged string: ABSENT is a missing key
\* (undefined), NULL is null, S: strings, N: numbers, B: booleans, O: objects.
StringVals == {"S:NOT_FOUND", "S:missing", "S:"}

FieldVals == StringVals \cup {"ABSENT", "NULL", "N:0", "N:7", "B:false", "O:{}", "O:{field}"}

\* typeof v === "string"
IsString(v) == v \in StringVals

\* JavaScript truthiness, as used by `data.details || {}`
Truthy(v) == v \notin {"ABSENT", "NULL", "S:", "N:0", "B:false"}

EmptyMapping == "O:{}"

\* A response body.  parse says what reading it as JSON gives:
\*   "object"  a JSON object with the fields code, message, details
\*   "other"   valid JSON that is not an object with those fields
\*             (null, a number, a string, an array): data?.code is undefined
\*   "invalid" the text is not JSON: json() throws a SyntaxError
\*   "broken"  the body stream cannot be read: json() rejects
ObjectBody(c, m, d) == [parse |-> "object", code |-> c, message |-> m, details |-> d]

OtherBody == [parse |-> "other", code |-> "ABSENT", message |-> "ABSENT", details |-> "ABSENT"]

InvalidBody == [parse |-> "invalid", code |-> "ABSENT", message |-> "ABSENT", details |-> "ABSENT"]

BrokenBody == [parse |-> "broken", code |-> "ABSENT", message |-> "ABSENT", details |-> "ABSENT"]

NoBody == [parse |-> "none", code |-> "ABSENT", message |-> "ABSENT", details |-> "ABSENT"]

\* A Response: status, whether Content-Type includes application/json, the
\* body, whether the body stream was already consumed (bodyUsed) and whether
\* the body is the camelCase re-serialisation made by afterResponse.
MkResponse(s, ct, b) == [status |-> s, ctJson |-> ct, body |-> b, bodyUsed |-> FALSE, camel |-> FALSE]

NoResponse == MkResponse(0, FALSE, NoBody)

\* response.ok
Ok(res) == res.status >= 200 /\ res.status <= 299

\* ------------------------------------------------------------- errors
\* An error object: its class, the request and response it is about and,
\* for an APIError, code / message / details.
MkError(k, q, res, c, m, d) == [kind |-> k, req |-> q, response |-> res, code |-> c, message |-> m, details |-> d]

NoError == MkError("none", RefreshReq, NoResponse, "ABSENT", "ABSENT", "ABSENT")

\* new HTTPError(response, request, options), thrown by ky for a non-ok
\* response because throwHttpErrors is true
HTTPError(res, q) == MkError("HTTPError", q, res, "ABSENT", "ABSENT", "ABSENT")

\* new APIError(res, request, options, code, message, details)
APIError(res, q, c, m, d) == MkError("APIError", q, res, c, m, d)

\* A failure without a response: "TypeError" (fetch failed: connection
\* refused, DNS, CORS), "TimeoutError" (ky's timeout), "SyntaxError" (a
\* body that is not JSON, thrown by response.json()).
PlainError(k, q) == MkError(k, q, NoResponse, "ABSENT", "ABSENT", "ABSENT")

\* The promise resolved with this response.
Resolved(res, q) == MkError("resolved", q, res, "ABSENT", "ABSENT", "ABSENT")

\* error instanceof HTTPError (APIError extends HTTPError)
IsHTTPError(e) == e.kind \in {"HTTPError", "APIError"}

\* res.clone().json() throws: clone() throws a TypeError on a used body,
\* json() rejects on a body that is not JSON or cannot be read
CloneJsonThrows(res) == res.bodyUsed \/ res.body.parse \in {"invalid", "broken", "none"}

\* beforeError with only the code field checked.
beforeError_CodeOnly(error) ==
    IF error.kind = "HTTPError"
    THEN LET res == error.response
             data == res.body
         IN IF CloneJsonThrows(res)
            THEN error
            ELSE IF IsString(data.code)
                 THEN APIError(res, error.req, data.code, data.message,
                               IF Truthy(data.details) THEN data.details ELSE EmptyMapping)
                 ELSE error
    ELSE error

\* beforeError whose failure paths wrap the error in a fallback APIError
\* instead of returning it.
beforeError_Fallback(error) ==
    IF error.kind = "HTTPError" /\ ~CloneJsonThrows(error.response)
    THEN LET res == error.response
             data == res.body
         IN IF IsString(data.code) /\ IsString(data.message)
            THEN APIError(res, error.req, data.code, data.message,
                          IF Truthy(data.details) THEN data.details ELSE EmptyMapping)
            ELSE error
    ELSE APIError(error.response, error.req, "S:", "S:", EmptyMapping)

\* hooks.beforeError[0]
beforeError(error) ==
    IF error.kind = "HTTPError"
    THEN LET res == error.response
             data == res.body
         IN IF CloneJsonThrows(res)
            THEN error
            ELSE IF IsString(data.code) /\ IsString(data.message)
                 THEN APIError(res, error.req, data.code, data.message,
                               IF Truthy(data.details) THEN data.details ELSE EmptyMapping)
                 ELSE error
    ELSE error

\* ------------------------------------------------------------ variables
VARIABLES
    isRefreshing,   \* the module-level flag
    method,         \* method[r]: HTTP method of caller r's request
    pc,             \* pc[r]: where caller r's api call is
    resp,           \* resp[r]: the response of the current transmission
    sends,          \* sends[r]: how often the request was transmitted
    retryCount,     \* retryCount[r]: ky's _retryCount
    result,         \* result[r]: what the caller's promise settled with
    steps,          \* steps[r]: response-processing steps run for the current transmission
    skipped,        \* skipped[r]: the 401 of r was observed while isRefreshing
    rpc,            \* rpc[r]: state of the refresh call awaited by caller r
    rresp,          \* rresp[r]: the response to that refresh call
    nin, nout, npc, \* the error normaliser applied on its own
    rkey, rval, renv, rout, rstage, \* revivers(key, value) applied on its own
    qin, qout, qsent, qstage,       \* beforeRequest applied to one request, then fetch
    kin, kmid, kout, kver, kstage,  \* the two case conversions applied in turn
    win, wenv, wmid, wout, wstage,  \* one response body from the wire to the caller
    page, pageSize, offset,         \* usePagination: the two states and the memoised offset
    fromDate, toDate, type, lastHours, \* the filter states of the logs screen
    uiop,                           \* the handler of the pagination hook or logs screen that ran last
    inputValue, inputDelay,         \* useDebounce: the arguments of the latest render
    debouncedValue,                 \* useDebounce: the state it returns
    timers,                         \* useDebounce: the timeouts that are set and not cleared
    held,                           \* time since inputValue last changed (history, capped)
    query,                          \* query[q]: what the dashboard's query q reports
    view,                           \* what DashboardProvider rendered last
    mutation,                       \* status of the logout mutation
    logoutRequest,                  \* the logout request: none, sent, resolved, rejected
    cache                           \* the keys held by the query cache

vars == <<isRefreshing, method, pc, resp, sends, retryCount, result, steps, skipped, rpc, rresp, nin, nout, npc,
          rkey, rval, renv, rout, rstage, qin, qout, qsent, qstage, kin, kmid, kout, kver, kstage, win, wenv, wmid, wout, wstage,
          page, pageSize, offset, fromDate, toDate, type, lastHours, uiop,
          inputValue, inputDelay, debouncedValue, timers, held, query, view, mutation, logoutRequest, cache>>

pipeVars == <<isRefreshing, method, pc, resp, sends, retryCount, result, steps, skipped, rpc, rresp>>

normVars == <<nin, nout, npc>>

revVars == <<rkey, rval, renv, rout, rstage>>

reqVars == <<qin, qout, qsent, qstage>>

caseVars == <<kin, kmid, kout, kver, kstage>>

respVars == <<win, wenv, wmid, wout, wstage>>

pageVars == <<page, pageSize, offset, fromDate, toDate, type, lastHours, uiop>>

debounceVars == <<inputValue, inputDelay, debouncedValue, timers, held>>

sessionVars == <<query, view, mutation, logoutRequest, cache>>

uiVars == <<pageVars, debounceVars, sessionVars>>

auxVars == <<revVars, reqVars, caseVars, respVars, uiVars>>

\* ------------------------------------------------- the ky client `api`
\* The methods the feature code uses through `api`.
Methods == {"get", "post"}

\* ky.create is given no `retry` option, so ky's defaults apply.
RetryLimit == 2

RetryMethods == {"get", "put", "head", "delete", "options", "trace"}

RetryStatusCodes == {408, 413, 429, 500, 502, 503, 504}

\* The statuses the backend answers with.
Statuses == {200, 401, 500}

StructuredBody == ObjectBody("S:NOT_FOUND", "S:missing", "ABSENT")

\* The responses a caller's request can receive: a JSON body with code and
\* message under each status, a 500 with a text body, and a 500 with a JSON
\* content type on a body that is not JSON.
Responses ==
    { MkResponse(s, TRUE, StructuredBody) : s \in Statuses }
    \cup { MkResponse(500, ct, InvalidBody) : ct \in BOOLEAN }

\* The responses the auth/token endpoint can give.
RefreshResponses ==
    { MkResponse(200, TRUE, OtherBody),
      MkResponse(401, TRUE, StructuredBody),
      MkResponse(500, FALSE, InvalidBody) }

\* Transport failures: fetch rejecting, and ky's timeout.
TransportKinds == {"TypeError", "TimeoutError"}

\* The 401 check without the flag.
ShouldRefresh_IgnoresFlag(status, flag) == status = 401

\* afterResponse: `response.status === 401 && !isRefreshing`
ShouldRefresh(status, flag) == status = 401 /\ ~flag

\* The refresh started without awaiting it.
AfterCheck_NoAwait(started) == "conv"

\* afterResponse: the hook awaits refreshToken() before it goes on, so the
\* request that started the refresh is suspended until the refresh settles.
AfterCheck(started) == IF started THEN "awaitRefresh" ELSE "conv"

\* The flag cleared only after a successful refresh.
FlagAfterRefresh_OnlyOnSuccess(ok) == ~ok

\* afterResponse: `finally { isRefreshing = false; }`, whatever the outcome
\* (ok is whether refreshToken() resolved).
FlagAfterRefresh(ok) == FALSE

\* await response.json() of the decorated response throws
JsonThrows(res) == res.bodyUsed \/ res.body.parse \in {"invalid", "broken", "none"}

\* afterResponse: "Transform JSON responses to camelCase".  A body that
\* fails to parse has been consumed by the attempt; the original response
\* object is returned.
camelcaseResponse(res) ==
    IF res.ctJson
    THEN IF JsonThrows(res)
         THEN [res EXCEPT !.bodyUsed = TRUE]
         ELSE [res EXCEPT !.camel = TRUE, !.bodyUsed = FALSE]
    ELSE res

\* ky with throwHttpErrors off: every response resolves.
AfterHooks_NoThrow(res) == "done"

\* ky: `if (!response.ok && throwHttpErrors)` the beforeError hooks run and
\* the error is thrown; otherwise the promise resolves with the response.
AfterHooks(res) == IF Ok(res) THEN "done" ELSE "norm"

\* ky's _calculateRetryDelay: an error thrown while handling a request with
\* a retriable method is retried unless the limit is reached, it is a
\* TimeoutError, or it is an HTTPError whose status is not retriable.
ShouldRetry(m, count, error) ==
    /\ m \in RetryMethods
    /\ count < RetryLimit
    /\ error.kind # "TimeoutError"
    /\ IsHTTPError(error) => error.response.status \in RetryStatusCodes

\* An error leaves ky's request function of caller r: retry or reject.
Throw(r, error) ==
    IF ShouldRetry(method[r], retryCount[r], error)
    THEN /\ pc' = [pc EXCEPT ![r] = "retry"]
         /\ retryCount' = [retryCount EXCEPT ![r] = @ + 1]
         /\ result' = result
    ELSE /\ pc' = [pc EXCEPT ![r] = "done"]
         /\ retryCount' = retryCount
         /\ result' = [result EXCEPT ![r] = error]

\* What refreshToken() gives for the response to auth/token: the refresh
\* request runs through the same hooks (its own 401 check is in
\* RefreshRespond), a non-ok response is thrown as the normalised error,
\* and `return response.json()` throws on a body that is not JSON.
RefreshOutcome(res) ==
    LET out == camelcaseResponse(res)
    IN IF ~Ok(out) THEN beforeError(HTTPError(out, RefreshReq))
       ELSE IF JsonThrows([out EXCEPT !.bodyUsed = res.ctJson /\ JsonThrows(res)])
            THEN PlainError("SyntaxError", RefreshReq)
            ELSE Resolved(out, RefreshReq)

\* --------------------------------------- the screens' hooks when mounted
\* usePagination({ initialPageSize: 20 }): const { initialPage = 1, initialPageSize = 20 } = options
options == [initialPage |-> 1, initialPageSize |-> 20]

\* useDebounce's delay, in ticks of the clock
MaxDelay == 2

DashboardProvider_PendingFirst(q) ==
    IF \E k \in DOMAIN q : q[k].status = "pending" THEN "loading"
    ELSE IF \E k \in DOMAIN q : q[k].status = "error" THEN "login"
    ELSE "content"

\* What DashboardProvider returns for the results q of useCurrentUser, useUserSettings and
\* useAppSettings: <Navigate to login>, the loading spinner, or the context provider around
\* its children.
DashboardProvider(q) ==
    LET isError == \E k \in DOMAIN q : q[k].status = "error"
        isPending == \E k \in DOMAIN q : q[k].status = "pending"
    IN  IF isError THEN "login"
        ELSE IF isPending THEN "loading"
        ELSE "content"

TypeOK ==
    /\ isRefreshing \in BOOLEAN
    /\ method \in [Callers -> Methods]
    /\ pc \in [Callers -> {"new", "retry", "sent", "awaitRefresh", "conv", "norm", "done"}]
    /\ sends \in [Callers -> 0..(RetryLimit + 1)]
    /\ retryCount \in [Callers -> 0..RetryLimit]
    /\ skipped \in [Callers -> BOOLEAN]
    /\ rpc \in [Callers -> {"none", "sent", "nested", "responded"}]
    /\ npc \in {"idle", "picked", "done"}

Init ==
    /\ isRefreshing = FALSE
    /\ method \in [Callers -> Methods]
    /\ pc = [r \in Callers |-> "new"]
    /\ resp = [r \in Callers |-> NoResponse]
    /\ sends = [r \in Callers |-> 0]
    /\ retryCount = [r \in Callers |-> 0]
    /\ result = [r \in Callers |-> NoError]
    /\ steps = [r \in Callers |-> <<>>]
    /\ skipped = [r \in Callers |-> FALSE]
    /\ rpc = [r \in Callers |-> "none"]
    /\ rresp = [r \in Callers |-> NoResponse]
    /\ nin = NoError
    /\ nout = NoError
    /\ npc = "idle"
    /\ rkey = "none" /\ rval = [t |-> "undefined", s |-> <<>>, n |-> <<>>, kids |-> <<>>] /\ renv = "none"
    /\ rout = [t |-> "undefined", s |-> <<>>, n |-> <<>>, kids |-> <<>>] /\ rstage = "idle"
    /\ qin = "none" /\ qout = "none" /\ qsent = "none" /\ qstage = "idle"
    /\ kin = [t |-> "undefined", s |-> <<>>, n |-> <<>>, kids |-> <<>>] /\ kmid = [t |-> "undefined", s |-> <<>>, n |-> <<>>, kids |-> <<>>]
    /\ kout = [t |-> "undefined", s |-> <<>>, n |-> <<>>, kids |-> <<>>] /\ kver = 0 /\ kstage = "idle"
    /\ win = "none" /\ wenv = "none" /\ wmid = "none"
    /\ wout = [t |-> "undefined", s |-> <<>>, n |-> <<>>, kids |-> <<>>] /\ wstage = "idle"
    /\ page = options.initialPage /\ pageSize = options.initialPageSize
    /\ offset = (options.initialPage - 1) * options.initialPageSize
    /\ fromDate = [t |-> "undefined", s |-> <<>>, n |-> <<>>, kids |-> <<>>]
    /\ toDate = [t |-> "undefined", s |-> <<>>, n |-> <<>>, kids |-> <<>>]
    /\ type = "ALL"
    /\ lastHours = [t |-> "undefined", s |-> <<>>, n |-> <<>>, kids |-> <<>>]
    /\ uiop = "mount"
    /\ inputValue = "" /\ inputDelay = MaxDelay /\ debouncedValue = ""
    /\ timers = {[value |-> "", left |-> MaxDelay]} /\ held = 0
    /\ query = [k \in {"currentUser", "userSettings", "appSettings"}
                   |-> [status |-> "pending", fetchStatus |-> "fetching"]]
    /\ view = DashboardProvider(query)
    /\ mutation = "idle" /\ logoutRequest = "none"
    /\ cache = {"currentUser", "userSettings", "appSettings"}

\* api.get(...) / api.post(...): the request is transmitted (first time or
\* a retry by ky).
Send(r) ==
    /\ pc[r] \in {"new", "retry"}
    /\ pc' = [pc EXCEPT ![r] = "sent"]
    /\ sends' = [sends EXCEPT ![r] = @ + 1]
    /\ resp' = [resp EXCEPT ![r] = NoResponse]
    /\ steps' = [steps EXCEPT ![r] = <<>>]
    /\ skipped' = [skipped EXCEPT ![r] = FALSE]
    /\ UNCHANGED <<isRefreshing, method, retryCount, result, rpc, rresp, normVars, auxVars>>

\* A response arrives and afterResponse starts: the 401 check, and, when it
\* passes, the flag is set and refreshToken() is called, all before the
\* first await.
Respond(r, res) ==
    /\ pc[r] = "sent"
    /\ LET start == ShouldRefresh(res.status, isRefreshing)
       IN /\ isRefreshing' = (IF start THEN TRUE ELSE isRefreshing)
          /\ rpc' = [rpc EXCEPT ![r] = IF start THEN "sent" ELSE @]
          /\ pc' = [pc EXCEPT ![r] = AfterCheck(start)]
          /\ skipped' = [skipped EXCEPT ![r] = (res.status = 401 /\ ~start)]
    /\ resp' = [resp EXCEPT ![r] = res]
    /\ steps' = [steps EXCEPT ![r] = Append(@, "refreshCheck")]
    /\ UNCHANGED <<method, sends, retryCount, result, rresp, normVars, auxVars>>

\* The request fails without a response (fetch rejects, or ky's timeout).
TransportFail(r, kind) ==
    /\ pc[r] = "sent"
    /\ Throw(r, beforeError(PlainError(kind, r)))
    /\ UNCHANGED <<isRefreshing, method, resp, sends, steps, skipped, rpc, rresp, normVars, auxVars>>

\* The response to auth/token arrives; the refresh request's own
\* afterResponse runs its 401 check against the same flag.
RefreshRespond(r, res) ==
    /\ rpc[r] \in {"sent", "nested"}
    /\ IF ShouldRefresh(res.status, isRefreshing)
       THEN \* a refresh of the refresh: a further auth/token call is sent
            /\ isRefreshing' = TRUE
            /\ rpc' = [rpc EXCEPT ![r] = "nested"]
            /\ UNCHANGED rresp
       ELSE /\ rpc' = [rpc EXCEPT ![r] = "responded"]
            /\ rresp' = [rresp EXCEPT ![r] = res]
            /\ UNCHANGED isRefreshing
    /\ UNCHANGED <<method, pc, resp, sends, retryCount, result, steps, skipped, normVars, auxVars>>

\* refreshToken() settles with `out` and the awaiting hook of caller r goes
\* on: the finally block, then the rest of the hook or the exception.
Resume(r, out) ==
    /\ isRefreshing' = FlagAfterRefresh(out.kind = "resolved")
    /\ rpc' = [rpc EXCEPT ![r] = "none"]
    /\ rresp' = [rresp EXCEPT ![r] = NoResponse]
    /\ IF out.kind = "resolved"
       THEN /\ pc' = [pc EXCEPT ![r] = "conv"]
            /\ UNCHANGED <<retryCount, result>>
       ELSE Throw(r, out)

\* The refresh call settles after its response was processed.
RefreshSettle(r) ==
    /\ rpc[r] = "responded"
    /\ pc[r] = "awaitRefresh"
    /\ Resume(r, RefreshOutcome(rresp[r]))
    /\ UNCHANGED <<method, resp, sends, steps, skipped, normVars, auxVars>>

\* The refresh call fails without a response.
RefreshFail(r, kind) ==
    /\ rpc[r] = "sent"
    /\ pc[r] = "awaitRefresh"
    /\ Resume(r, beforeError(PlainError(kind, RefreshReq)))
    /\ UNCHANGED <<method, resp, sends, steps, skipped, normVars, auxVars>>

\* afterResponse, second half: the body is transcoded to camelCase and the
\* hook returns; ky then resolves, or goes on to the beforeError hooks.
Conv(r) ==
    /\ pc[r] = "conv"
    /\ LET out == camelcaseResponse(resp[r])
       IN /\ resp' = [resp EXCEPT ![r] = out]
          /\ pc' = [pc EXCEPT ![r] = AfterHooks(out)]
          /\ result' = [result EXCEPT ![r] = IF AfterHooks(out) = "done" THEN Resolved(out, r) ELSE @]
    /\ steps' = [steps EXCEPT ![r] = Append(@, "caseConversion")]
    /\ UNCHANGED <<isRefreshing, method, sends, retryCount, skipped, rpc, rresp, normVars, auxVars>>

\* beforeError runs on the HTTPError of the non-ok response; ky throws
\* what it returns.
Normalize(r) ==
    /\ pc[r] = "norm"
    /\ Throw(r, beforeError(HTTPError(resp[r], r)))
    /\ steps' = [steps EXCEPT ![r] = Append(@, "errorNormalization")]
    /\ UNCHANGED <<isRefreshing, method, resp, sends, skipped, rpc, rresp, normVars, auxVars>>

Next ==
    \E r \in Callers :
        \/ Send(r)
        \/ \E res \in Responses : Respond(r, res)
        \/ \E kind \in TransportKinds : TransportFail(r, kind)
        \/ \E res \in RefreshResponses : RefreshRespond(r, res)
        \/ RefreshSettle(r)
        \/ \E kind \in TransportKinds : RefreshFail(r, kind)
        \/ Conv(r)
        \/ Normalize(r)

Spec == Init /\ [][Next]_vars

FairSpec == Spec /\ WF_vars(Next)

\* ------------------------------------------- the normaliser on its own
\* The responses ky can hand to beforeError: what afterResponse returns
\* for a non-ok response.
NormStatuses == {401, 404, 500}

CodeVals == StringVals \cup {"ABSENT", "NULL", "N:7"}

NormBodies ==
    { ObjectBody(c, m, d) : c \in CodeVals, m \in CodeVals, d \in FieldVals }
    \cup {OtherBody, InvalidBody, BrokenBody}

NormResponses ==
    { camelcaseResponse(MkResponse(s, ct, b)) : s \in NormStatuses, ct \in BOOLEAN, b \in NormBodies }

NormInputs ==
    { HTTPError(res, q) : res \in NormResponses, q \in Callers }
    \cup { PlainError(k, q) : k \in TransportKinds, q \in Callers }

\* An error reaches the beforeError hook.
NormPick(e) ==
    /\ npc = "idle"
    /\ nin' = e
    /\ nout' = NoError
    /\ npc' = "picked"
    /\ UNCHANGED <<pipeVars, auxVars>>

\* The hook returns.
NormApply ==
    /\ npc = "picked"
    /\ nout' = beforeError(nin)
    /\ npc' = "done"
    /\ UNCHANGED <<nin, pipeVars, auxVars>>

NormNext == (\E e \in NormInputs : NormPick(e)) \/ NormApply

NormInit == Init /\ method = [r \in Callers |-> "get"]

NormSpec == NormInit /\ [][NormNext]_vars

\* ------------------------------------------------------------- claims
InFlight == { r \in Callers : rpc[r] # "none" }

\* Caller r's promise rejected with the failure of its own 401 response.
Own401(r) ==
    /\ IsHTTPError(result[r])
    /\ result[r].req = r
    /\ result[r].response.status = 401

\* C1: at most one token-refresh call is in flight at any time, and a 401
\* observed while isRefreshing is true starts no refresh of its own.
C1_SingleRefresh ==
    /\ Cardinality(InFlight) <= 1
    /\ \A r \in Callers : skipped[r] => rpc[r] = "none"

\* Two requests received 401 before the first refresh settled.
C1_Witness ==
    \E r1, r2 \in Callers :
        /\ r1 # r2
        /\ resp[r1].status = 401 /\ rpc[r1] = "sent"
        /\ resp[r2].status = 401 /\ skipped[r2]
        /\ InFlight = {r1}

\* C2: the flag is true exactly while a token-refresh call is outstanding;
\* once the call has settled, by success or by failure, the flag is false.
C2_FlagTracksRefresh == isRefreshing <=> (InFlight # {})

\* A refresh failed and the interceptor is back in IDLE.
C2_Witness ==
    \E r \in Callers :
        /\ pc[r] = "done"
        /\ result[r].req = RefreshReq
        /\ result[r].kind # "none"
        /\ ~isRefreshing

\* C3: a caller whose request received 401 is rejected with the failure of
\* its own request and response, also when the refresh call failed.
C3_Original401Surfaced ==
    \A r \in Callers : (pc[r] = "done" /\ resp[r].status = 401) => Own401(r)

\* C4 as stated: the caller is never held back by the refresh its 401 started.
C4_NotBlocked ==
    \A r \in Callers : rpc[r] # "none" => pc[r] # "awaitRefresh"

\* C4, amended: the request whose 401 started the refresh is suspended for
\* as long as the refresh call is in flight and settles only afterwards; a
\* 401 observed while a refresh is in flight does not wait for it.
C4_BlockedUntilRefreshSettles ==
    \A r \in Callers :
        /\ rpc[r] # "none" <=> pc[r] = "awaitRefresh"
        /\ pc[r] = "done" => rpc[r] = "none"
        /\ skipped[r] => pc[r] # "awaitRefresh"

\* One caller waits for its refresh while a second one, whose 401 was
\* skipped, has already been given its 401.
C4_Witness ==
    \E r1, r2 \in Callers :
        /\ pc[r1] = "awaitRefresh" /\ rpc[r1] = "responded"
        /\ skipped[r2] /\ pc[r2] = "done" /\ Own401(r2)

IsPrefix(a, b) == Len(a) <= Len(b) /\ a = SubSeq(b, 1, Len(a))

\* C5 as stated: case conversion, then the refresh check, then error
\* normalisation, all before the promise settles.
C5_SpecOrder ==
    \A r \in Callers :
        (pc[r] = "done" /\ resp[r] # NoResponse) =>
            steps[r] = (IF Ok(resp[r])
                        THEN <<"caseConversion", "refreshCheck">>
                        ELSE <<"caseConversion", "refreshCheck", "errorNormalization">>)

\* C5, amended: the steps run in the order refresh check, case conversion,
\* error normalisation; all that apply have run when the promise settles,
\* except that after a failed refresh only the refresh check has run.
C5_CodeOrder ==
    \A r \in Callers :
        /\ IsPrefix(steps[r], <<"refreshCheck", "caseConversion", "errorNormalization">>)
        /\ (pc[r] = "done" /\ resp[r] # NoResponse) =>
              steps[r] = (IF result[r].req = RefreshReq
                          THEN <<"refreshCheck">>
                          ELSE IF Ok(resp[r])
                               THEN <<"refreshCheck", "caseConversion">>
                               ELSE <<"refreshCheck", "caseConversion", "errorNormalization">>)

\* A 401 went through all three steps after a refresh that succeeded.
C5_Witness ==
    \E r \in Callers :
        /\ pc[r] = "done" /\ Own401(r) /\ ~skipped[r]
        /\ steps[r] = <<"refreshCheck", "caseConversion", "errorNormalization">>

\* C6: a request that received 401 is not sent again, and its caller
\* receives the 401 failure, whatever became of the refresh.
C6_NoResendAfter401 ==
    \A r \in Callers :
        resp[r].status = 401 =>
            /\ pc[r] # "retry"
            /\ pc[r] = "done" => Own401(r)

\* C7: no request is transmitted more than once.
C7_SentOnce == \A r \in Callers : sends[r] <= 1

\* The body the normaliser reads parses as JSON with string code and message.
Structured(e) ==
    /\ e.kind = "HTTPError"
    /\ e.response.body.parse = "object"
    /\ IsString(e.response.body.code)
    /\ IsString(e.response.body.message)

\* C8 as stated: a Structured API Error if and only if the body parses as
\* JSON with string code and message; details is the body's details, or an
\* empty mapping when absent; otherwise the original error.
C8_DetailsWhenPresent ==
    npc = "done" =>
        nout = (IF Structured(nin)
                THEN APIError(nin.response, nin.req, nin.response.body.code, nin.response.body.message,
                              IF nin.response.body.details = "ABSENT"
                              THEN EmptyMapping ELSE nin.response.body.details)
                ELSE nin)

\* C8, amended: details is the body's details when that is truthy, and an
\* empty mapping when it is absent or falsy (null, false, 0, "").
C8_DetailsWhenTruthy ==
    npc = "done" =>
        nout = (IF Structured(nin)
                THEN APIError(nin.response, nin.req, nin.response.body.code, nin.response.body.message,
                              IF nin.response.body.details \in {"ABSENT", "NULL", "S:", "N:0", "B:false"}
                              THEN EmptyMapping ELSE nin.response.body.details)
                ELSE nin)

\* The 404 {code: NOT_FOUND, message: missing} of the specification.
C8_Witness ==
    /\ npc = "done"
    /\ nin.kind = "HTTPError" /\ nin.response.status = 404
    /\ nin.response.body = ObjectBody("S:NOT_FOUND", "S:missing", "ABSENT")
    /\ nout.kind = "APIError" /\ nout.code = "S:NOT_FOUND" /\ nout.message = "S:missing"
    /\ nout.details = EmptyMapping

\* C9: a failed response whose body cannot be parsed as JSON gives the
\* original error itself, with no code or message.
C9_UnparsableUnchanged ==
    (npc = "done" /\ nin.kind = "HTTPError" /\ nin.response.body.parse \in {"invalid", "broken"}) =>
        /\ nout = nin
        /\ nout.code = "ABSENT" /\ nout.message = "ABSENT"

\* A 500 with a body that is not JSON, and one whose body was consumed.
C9_Witness ==
    /\ npc = "done"
    /\ nin.kind = "HTTPError" /\ nin.response.status = 500
    /\ nin.response.body.parse = "invalid" /\ nin.response.bodyUsed
    /\ nout = nin

\* C10: a request that fails without a response (timeout, transport) is
\* rejected with that generic error of its own, never an APIError.
C10_TransportGeneric ==
    \A r \in Callers :
        (pc[r] = "done" /\ resp[r] = NoResponse) =>
            /\ result[r] \in { PlainError(k, r) : k \in TransportKinds }
            /\ result[r].kind # "APIError"

\* A request timed out.
C10_Witness ==
    \E r \in Callers : pc[r] = "done" /\ resp[r] = NoResponse /\ result[r] = PlainError("TimeoutError", r)

(***************************************************************************)
(* lib/revivers.ts: the JSON.parse reviver.  Strings are tuples of        *)
(* one-character strings; every JavaScript value is a record              *)
(* [t, s, n, kids]: s the characters of a string, n a number's             *)
(* <<mantissa, scale>> or a Date's UTC fields <<year, month, day, minute   *)
(* of day>>, kids the entries [k, val] of an object or array in order.     *)
(***************************************************************************)
DigitChars == {"0", "1", "2", "3", "4", "5", "6", "7", "8", "9"}

DigitVal(c) ==
    CASE c = "0" -> 0 [] c = "1" -> 1 [] c = "2" -> 2 [] c = "3" -> 3 [] c = "4" -> 4
      [] c = "5" -> 5 [] c = "6" -> 6 [] c = "7" -> 7 [] c = "8" -> 8 [] c = "9" -> 9

IsDigitAt(s, i) == i >= 1 /\ i <= Len(s) /\ s[i] \in DigitChars

CharAt(s, i) == IF i >= 1 /\ i <= Len(s) THEN s[i] ELSE "EOF"

RECURSIVE DigitRun(_, _)
DigitRun(s, i) == IF IsDigitAt(s, i) THEN 1 + DigitRun(s, i + 1) ELSE 0

RECURSIVE DigitsValue(_, _, _)
DigitsValue(s, i, n) == IF n = 0 THEN 0 ELSE DigitsValue(s, i, n - 1) * 10 + DigitVal(s[i + n - 1])

RECURSIVE Pow10(_)
Pow10(n) == IF n = 0 THEN 1 ELSE 10 * Pow10(n - 1)

StringValue(s) == [t |-> "string", s |-> s, n |-> <<>>, kids |-> <<>>]

NumberValue(mantissa, scale) == [t |-> "number", s |-> <<>>, n |-> <<mantissa, scale>>, kids |-> <<>>]

NaN == [t |-> "number", s |-> <<>>, n |-> <<>>, kids |-> <<>>]

DateValue(y, mo, d, min) == [t |-> "Date", s |-> <<>>, n |-> <<y, mo, d, min>>, kids |-> <<>>]

InvalidDate == [t |-> "Date", s |-> <<>>, n |-> <<>>, kids |-> <<>>]

OtherValue(t) == [t |-> t, s |-> <<>>, n |-> <<>>, kids |-> <<>>]

\* One property of an object, or one item of an array (k empty).
Entry(k, val) == [k |-> k, val |-> val]

isNaN(x) == x.n = <<>>

\* A decimal with trailing fraction zeros dropped: 12.50 and 12.5 are one number.
RECURSIVE Decimal(_, _)
Decimal(mantissa, scale) ==
    IF scale > 0 /\ mantissa % 10 = 0 THEN Decimal(mantissa \div 10, scale - 1)
    ELSE NumberValue(mantissa, scale)

\* /^\d{4}-\d{2}-\d{2}T/.test(s)
MatchesDatePrefix(s) ==
    /\ Len(s) >= 11
    /\ \A i \in {1, 2, 3, 4, 6, 7, 9, 10} : s[i] \in DigitChars
    /\ s[5] = "-" /\ s[8] = "-" /\ s[11] = "T"

\* /^\d+(\.\d+)?$/.test(s): the expression of the earlier revision, without a sign.
MatchesDecimal_Unsigned(s) ==
    LET ni == DigitRun(s, 1)
        nf == DigitRun(s, ni + 2)
    IN  /\ ni >= 1
        /\ \/ Len(s) = ni
           \/ CharAt(s, ni + 1) = "." /\ nf >= 1 /\ Len(s) = ni + 1 + nf

\* /^-?\d+(\.\d+)?$/.test(s)
MatchesDecimal(s) ==
    LET start == IF CharAt(s, 1) = "-" THEN 2 ELSE 1
        ni == DigitRun(s, start)
        nf == DigitRun(s, start + ni + 1)
    IN  /\ ni >= 1
        /\ \/ Len(s) = start + ni - 1
           \/ CharAt(s, start + ni) = "." /\ nf >= 1 /\ Len(s) = start + ni + nf

\* parseFloat(s): the longest leading decimal literal of s (sign, digits, point,
\* digits), whatever follows it; NaN when s does not start with one.
ParseFloat(s) ==
    LET start == IF CharAt(s, 1) \in {"-", "+"} THEN 2 ELSE 1
        ni == DigitRun(s, start)
        nf == IF CharAt(s, start + ni) = "." THEN DigitRun(s, start + ni + 1) ELSE 0
        magnitude == DigitsValue(s, start, ni) * Pow10(nf) + DigitsValue(s, start + ni + 1, nf)
    IN  IF ni = 0 /\ nf = 0 THEN NaN
        ELSE Decimal(IF CharAt(s, 1) = "-" THEN 0 - magnitude ELSE magnitude, nf)

DaysInMonth(y, mo) ==
    IF mo = 2 THEN (IF (y % 4 = 0 /\ y % 100 # 0) \/ y % 400 = 0 THEN 29 ELSE 28)
    ELSE IF mo \in {4, 6, 9, 11} THEN 30 ELSE 31

\* MakeDay: a day number past the end of its month, or before its start, carried
\* into the neighbouring month.
RECURSIVE MakeDay(_, _, _)
MakeDay(y, mo, d) ==
    IF d > DaysInMonth(y, mo)
    THEN (IF mo = 12 THEN MakeDay(y + 1, 1, d - DaysInMonth(y, mo))
          ELSE MakeDay(y, mo + 1, d - DaysInMonth(y, mo)))
    ELSE IF d < 1
    THEN (IF mo = 1 THEN MakeDay(y - 1, 12, d + 31)
          ELSE MakeDay(y, mo - 1, d + DaysInMonth(y, mo - 1)))
    ELSE <<y, mo, d>>

\* Every date-time read as local time, its offset ignored.
TimeZoneAt_AlwaysLocal(s, p, env) == env.tz

\* The offset part of a date-time string starting at position p, in minutes east
\* of UTC: the host's own when there is none (local time), NoOffset when what is
\* there is not an offset.
NoOffset == 10000

TimeZoneAt(s, p, env) ==
    IF p > Len(s) THEN env.tz
    ELSE IF s[p] = "Z" /\ Len(s) = p THEN 0
    ELSE IF /\ s[p] \in {"+", "-"} /\ Len(s) = p + 5 /\ s[p + 3] = ":"
            /\ \A i \in {p + 1, p + 2, p + 4, p + 5} : s[i] \in DigitChars
    THEN (IF s[p] = "-" THEN -1 ELSE 1) * (DigitsValue(s, p + 1, 2) * 60 + DigitsValue(s, p + 4, 2))
    ELSE NoOffset

\* new Date(s) for a string that passed MatchesDatePrefix: the ECMAScript
\* date-time format YYYY-MM-DDTHH:mm[:ss[.sss]][Z|+HH:mm|-HH:mm], without an
\* offset read as local time, converted to UTC.  env is the engine and host
\* the page runs on: whether the engine carries a day of month up to 31 into
\* the next month (V8) or rejects it (lenientDay), whether its fallback parser
\* makes a date, DateValue(1970, 1, 1, 0) for whichever, of a string outside the
\* format (legacyParse), and the host's offset from UTC in minutes (tz).
NewDate(s, env) ==
    LET y == DigitsValue(s, 1, 4)
        mo == DigitsValue(s, 6, 2)
        d == DigitsValue(s, 9, 2)
        hasTime == /\ Len(s) >= 16 /\ s[14] = ":"
                   /\ \A i \in {12, 13, 15, 16} : s[i] \in DigitChars
        h == DigitsValue(s, 12, 2)
        mi == DigitsValue(s, 15, 2)
        hasSec == CharAt(s, 17) = ":" /\ IsDigitAt(s, 18) /\ IsDigitAt(s, 19)
        sec == IF hasSec THEN DigitsValue(s, 18, 2) ELSE 0
        afterSec == IF hasSec THEN 20 ELSE 17
        hasMs == hasSec /\ CharAt(s, 20) = "." /\ DigitRun(s, 21) = 3
        afterMs == IF hasMs THEN 24 ELSE afterSec
        tz == TimeZoneAt(s, afterMs, env)
        inFormat == hasTime /\ tz # NoOffset
        inRange == /\ mo >= 1 /\ mo <= 12
                   /\ d >= 1
                   /\ d <= (IF env.lenientDay THEN 31 ELSE DaysInMonth(y, mo))
                   /\ (h <= 23 \/ (h = 24 /\ mi = 0 /\ sec = 0))
                   /\ mi <= 59 /\ sec <= 59
        utc == h * 60 + mi - tz
        day == MakeDay(y, mo, d + (utc \div 1440))
    IN  IF ~inFormat THEN (IF env.legacyParse THEN DateValue(1970, 1, 1, 0) ELSE InvalidDate)
        ELSE IF ~inRange THEN InvalidDate
        ELSE DateValue(day[1], day[2], day[3], utc % 1440)

DATE_KEYS == {"createdAt", "lastLogin", "updatedAt", "timestamp", "nextDividendDate"}

\* DECIMAL_KEYS with a date name in it.
DECIMAL_KEYS_WithTimestamp ==
    {"price", "dividendYield", "marketCap", "peRatio", "eps", "atrStopLossMultiplePercentage",
     "atrProfitMultiplePercentage", "openingPriceMultiplePercentage", "size", "openLevel",
     "currentLevel", "profitLoss", "profitLossPercentage", "maxPositionSize", "entryLevel",
     "stopLevel", "profitLevel", "timestamp"}

DECIMAL_KEYS ==
    {"price", "dividendYield", "marketCap", "peRatio", "eps", "atrStopLossMultiplePercentage",
     "atrProfitMultiplePercentage", "openingPriceMultiplePercentage", "size", "openLevel",
     "currentLevel", "profitLoss", "profitLossPercentage", "maxPositionSize", "entryLevel",
     "stopLevel", "profitLevel"}

isDate(key, value) == key \in DATE_KEYS /\ value.t = "string" /\ MatchesDatePrefix(value.s)

\* The decimal test without the name set.
isDecimal_AnyKey(key, value) == value.t = "string" /\ MatchesDecimal(value.s)

isDecimal(key, value) == key \in DECIMAL_KEYS /\ value.t = "string" /\ MatchesDecimal(value.s)

\* revivers without the isNaN guards.
revivers_NoValidityCheck(key, value, env) ==
    IF isDate(key, value) THEN NewDate(value.s, env)
    ELSE IF isDecimal(key, value) THEN ParseFloat(value.s)
    ELSE value

revivers(key, value, env) ==
    IF isDate(key, value)
    THEN LET date == NewDate(value.s, env) IN IF isNaN(date) THEN value ELSE date
    ELSE IF isDecimal(key, value)
    THEN LET decimal == ParseFloat(value.s) IN IF isNaN(decimal) THEN value ELSE decimal
    ELSE value

(***************************************************************************)
(* revivers applied on its own to one key and one value.                   *)
(***************************************************************************)
DigitChar(x) == <<"0", "1", "2", "3", "4", "5", "6", "7", "8", "9">>[x + 1]

Pad2(x) == <<DigitChar(x \div 10), DigitChar(x % 10)>>

\* date.toISOString(): YYYY-MM-DDTHH:mm:ss.sssZ in UTC (dates are kept to the
\* minute, so seconds and milliseconds are zero).
toISOString(date) ==
    Pad2(date.n[1] \div 100) \o Pad2(date.n[1] % 100) \o <<"-">> \o Pad2(date.n[2]) \o <<"-">>
        \o Pad2(date.n[3]) \o <<"T">> \o Pad2(date.n[4] \div 60) \o <<":">> \o Pad2(date.n[4] % 60)
        \o <<":", "0", "0", ".", "0", "0", "0", "Z">>

\* JSON.stringify(value): the canonical text of the value; a Date is written
\* as its toISOString string (null when invalid), and NaN as null.
RECURSIVE ToJSON(_)
ToJSON(v) ==
    IF v.t \in {"object", "array"}
    THEN [v EXCEPT !.kids = [i \in 1..Len(v.kids) |-> Entry(v.kids[i].k, ToJSON(v.kids[i].val))]]
    ELSE IF v.t = "Date" THEN (IF isNaN(v) THEN OtherValue("null") ELSE StringValue(toISOString(v)))
    ELSE IF v.t = "number" /\ isNaN(v) THEN OtherValue("null")
    ELSE v

\* The values handed to the reviver: date-time strings of every month, day
\* and time part below, strings that are no date-time, decimal and other
\* strings, and values that are no strings.
RevValues ==
    LET Months == {<<"0", "1">>, <<"0", "2">>, <<"1", "2">>, <<"1", "3">>}
        Days == {<<"0", "1">>, <<"3", "0">>, <<"3", "1">>, <<"3", "2">>}
        TimeParts ==
            {<<"1", "0", ":", "3", "0", ":", "0", "0", "Z">>,
             <<"2", "3", ":", "3", "0", ":", "0", "0", ".", "0", "0", "0", "Z">>,
             <<"2", "3", ":", "3", "0", ":", "0", "0", "-", "0", "5", ":", "0", "0">>,
             <<"0", "0", ":", "3", "0", ":", "0", "0", "+", "0", "2", ":", "0", "0">>,
             <<"1", "0", ":", "3", "0", ":", "0", "0">>,
             <<"0", "0", ":", "3", "0">>,
             <<"2", "3", ":", "3", "0", ":", "0", "0">>,
             <<"2", "4", ":", "0", "0", ":", "0", "0", "Z">>,
             <<"2", "5", ":", "0", "0", ":", "0", "0", "Z">>,
             <<>>,
             <<"x", "y", "z">>}
        DateTimeStrings ==
            {<<"2", "0", "2", "4", "-">> \o mo \o <<"-">> \o d \o <<"T">> \o rest :
                mo \in Months, d \in Days, rest \in TimeParts}
        OtherStrings ==
            {<<"2", "0", "2", "4", "-", "0", "1", "-", "1", "5">>,
             <<"2", "0", "2", "4", "-", "1", "-", "5", "T", "1", "0", ":", "3", "0", ":", "0", "0", "Z">>,
             <<"1", "5", "/", "0", "1", "/", "2", "0", "2", "4">>,
             <<>>}
        DecimalStrings ==
            {<<"0">>,
             <<"5">>,
             <<"1", "2", ".", "5", "0">>,
             <<"-", "3">>,
             <<"-", "0", ".", "7", "5">>,
             <<"a", "b", "c">>,
             <<"1", ".">>,
             <<".", "5">>,
             <<"+", "5">>,
             <<"1", "e", "3">>,
             <<"1", "2", ".", "5", "a", "b", "c">>,
             <<"-", "-", "1">>}
    IN  {StringValue(s) : s \in DateTimeStrings \cup OtherStrings \cup DecimalStrings}
            \cup {NumberValue(5, 0), NumberValue(125, 1)}
            \cup {OtherValue(t) : t \in {"boolean", "null", "object", "array"}}

RevPick ==
    /\ rstage = "idle"
    /\ \E k \in {"createdAt", "timestamp", "price", "size", "name", "created_at", ""},
          v \in RevValues,
          e \in [lenientDay : BOOLEAN, legacyParse : BOOLEAN, tz : {-300, 0, 120}] :
            rkey' = k /\ rval' = v /\ renv' = e
    /\ rstage' = "picked"
    /\ UNCHANGED <<rout, pipeVars, normVars, uiVars, reqVars, caseVars, respVars>>

RevApply ==
    /\ rstage = "picked"
    /\ rout' = revivers(rkey, rval, renv)
    /\ rstage' = "done"
    /\ UNCHANGED <<rkey, rval, renv, pipeVars, normVars, uiVars, reqVars, caseVars, respVars>>

\* The value is revived a second time under the same key, as it is or as
\* JSON.stringify wrote it out.
RevAgain ==
    /\ rstage = "done"
    /\ \E written \in BOOLEAN :
            rout' = revivers(rkey, IF written THEN ToJSON(rout) ELSE rout, renv)
    /\ rstage' = "again"
    /\ UNCHANGED <<rkey, rval, renv, pipeVars, normVars, uiVars, reqVars, caseVars, respVars>>

RevNext ==
    \/ RevPick
    \/ RevApply
    \/ RevAgain

RevSpec == NormInit /\ [][RevNext]_vars

(***************************************************************************)
(* Claims about the reviver, checked under RevSpec.                        *)
(***************************************************************************)
Revived == rstage = "done"

\* C14: under a date name, a string matching ^\d{4}-\d{2}-\d{2}T revives to the
\* date constructed from it when that date is valid and to the string itself
\* otherwise; the call always returns one of the two.
C14_DateOrUnchanged ==
    (Revived /\ rkey \in DATE_KEYS /\ rval.t = "string" /\ MatchesDatePrefix(rval.s)) =>
        /\ rout = (IF isNaN(NewDate(rval.s, renv)) THEN rval ELSE NewDate(rval.s, renv))
        /\ rout.t \in {"Date", "string"}

C14_Witness ==
    /\ Revived /\ rkey \in DATE_KEYS /\ rval.t = "string" /\ MatchesDatePrefix(rval.s)
    /\ isNaN(NewDate(rval.s, renv))
    /\ rout = rval

\* ^-?\d+(\.\d+)?$ read off the expression: an optional minus, one or more
\* digits, and optionally a point followed by one or more digits.
IsSignedDecimal(s) ==
    \E neg \in {0, 1}, ni \in 1..Len(s), nf \in 0..Len(s) :
        /\ Len(s) = neg + ni + (IF nf > 0 THEN nf + 1 ELSE 0)
        /\ neg = 1 => s[1] = "-"
        /\ \A i \in (neg + 1)..(neg + ni) : s[i] \in DigitChars
        /\ nf > 0 => s[neg + ni + 1] = "."
        /\ nf > 0 => \A i \in (neg + ni + 2)..Len(s) : s[i] \in DigitChars

\* C15: under a decimal name, a string matching ^-?\d+(\.\d+)?$, signed or not,
\* revives to the number parseFloat gives for it, and any other string to itself.
C15_DecimalOrUnchanged ==
    (Revived /\ rkey \in DECIMAL_KEYS /\ rval.t = "string") =>
        IF IsSignedDecimal(rval.s)
        THEN rout.t = "number" /\ ~isNaN(rout) /\ rout = ParseFloat(rval.s)
        ELSE rout = rval

C15_Witness ==
    /\ Revived /\ rkey \in DECIMAL_KEYS
    /\ rval = StringValue(<<"-", "0", ".", "7", "5">>)
    /\ rout = NumberValue(-75, 2)

\* C16: a key in neither name set, or a value that is not a string, comes back
\* as it went in, and applying the reviver changes nothing but its result.
C16_PassThrough ==
    /\ [](Revived /\ (rkey \notin DATE_KEYS \cup DECIMAL_KEYS \/ rval.t # "string") => rout = rval)
    /\ [][rstage = "picked" => UNCHANGED <<rkey, rval, renv>>]_vars

C16_Witness ==
    /\ Revived /\ rkey = "name"
    /\ rval = StringValue(<<"1", "2", ".", "5", "0">>)
    /\ rout = rval

\* C17: no name is in both DATE_KEYS and DECIMAL_KEYS, so the key handed to the
\* reviver selects at most one of the two coercions.
C17_DisjointKeys ==
    /\ DATE_KEYS \cap DECIMAL_KEYS = {}
    /\ rstage # "idle" => ~(rkey \in DATE_KEYS /\ rkey \in DECIMAL_KEYS)

C17_Witness ==
    /\ Revived /\ rkey = "timestamp" /\ rkey \in DATE_KEYS /\ rkey \notin DECIMAL_KEYS
    /\ rval.t = "string" /\ rout.t = "Date"

\* The YYYY-MM-DD a date-time string starts with, and the one toISOString starts with.
DatePortion(s) == <<DigitsValue(s, 1, 4), DigitsValue(s, 6, 2), DigitsValue(s, 9, 2)>>

IsoDatePortion(date) == <<date.n[1], date.n[2], date.n[3]>>

\* C18 as stated: under a date name every string matching ^\d{4}-\d{2}-\d{2}T.*
\* revives to a valid date whose ISO date portion is the string's, and every
\* other string to itself.
C18_AlwaysSameDay ==
    (Revived /\ rkey \in DATE_KEYS /\ rval.t = "string") =>
        IF MatchesDatePrefix(rval.s)
        THEN rout.t = "Date" /\ ~isNaN(rout) /\ IsoDatePortion(rout) = DatePortion(rval.s)
        ELSE rout = rval

\* A complete date-time in UTC: YYYY-MM-DDTHH:mm, optional :ss and .sss, then Z,
\* naming a day that exists and a time of day below 24:00.
IsUtcDateTime(s) ==
    /\ MatchesDatePrefix(s)
    /\ Len(s) \in {17, 20, 24} /\ s[Len(s)] = "Z"
    /\ \A i \in {12, 13, 15, 16} : s[i] \in DigitChars
    /\ s[14] = ":"
    /\ Len(s) >= 20 => s[17] = ":" /\ s[18] \in DigitChars /\ s[19] \in DigitChars
    /\ Len(s) = 24 => s[20] = "." /\ \A i \in {21, 22, 23} : s[i] \in DigitChars
    /\ DigitsValue(s, 6, 2) \in 1..12
    /\ DigitsValue(s, 9, 2) \in 1..DaysInMonth(DigitsValue(s, 1, 4), DigitsValue(s, 6, 2))
    /\ DigitsValue(s, 12, 2) <= 23 /\ DigitsValue(s, 15, 2) <= 59
    /\ Len(s) >= 20 => DigitsValue(s, 18, 2) <= 59

\* C18: under a date name a string matching the prefix revives to itself or to a
\* valid date; when it is a complete UTC date-time of an existing day the
\* result is a valid date whose ISO date portion is the string's; a string that
\* does not match revives to itself.
C18_SameDayWhenUtc ==
    (Revived /\ rkey \in DATE_KEYS /\ rval.t = "string") =>
        IF MatchesDatePrefix(rval.s)
        THEN /\ rout = rval \/ (rout.t = "Date" /\ ~isNaN(rout))
             /\ IsUtcDateTime(rval.s) =>
                    rout.t = "Date" /\ ~isNaN(rout) /\ IsoDatePortion(rout) = DatePortion(rval.s)
        ELSE rout = rval

C18_Witness ==
    /\ Revived /\ rkey = "createdAt" /\ renv.tz = -300
    /\ rval = StringValue(<<"2", "0", "2", "4", "-", "1", "2", "-", "3", "1", "T",
                            "1", "0", ":", "3", "0", ":", "0", "0", "Z">>)
    /\ rout = DateValue(2024, 12, 31, 630)

(***************************************************************************)
(* snakecaseKeys and camelcaseKeys (api/config.ts), the key conversions    *)
(* of the snakecase-keys and camelcase-keys packages.                      *)
(***************************************************************************)
MaxKeyLen == 3

Lowers == <<"a", "b", "c", "d", "e", "f", "g", "h", "i", "j", "k", "l", "m",
            "n", "o", "p", "q", "r", "s", "t", "u", "v", "w", "x", "y", "z">>

Uppers == <<"A", "B", "C", "D", "E", "F", "G", "H", "I", "J", "K", "L", "M",
            "N", "O", "P", "Q", "R", "S", "T", "U", "V", "W", "X", "Y", "Z">>

IsLower(c) == \E i \in 1..26 : Lowers[i] = c

IsUpper(c) == \E i \in 1..26 : Uppers[i] = c

IsAlnum(c) == IsLower(c) \/ IsUpper(c) \/ c \in DigitChars

ToLower(c) == IF IsUpper(c) THEN Lowers[CHOOSE i \in 1..26 : Uppers[i] = c] ELSE c

ToUpper(c) == IF IsLower(c) THEN Uppers[CHOOSE i \in 1..26 : Lowers[i] = c] ELSE c

\* The word breaks of snake-case: /([a-z0-9])([A-Z])/g and /([A-Z])([A-Z][a-z])/g
\* put one between s[i] and s[i + 1].
SplitsAfter(s, i) ==
    /\ i < Len(s)
    /\ \/ (IsLower(s[i]) \/ s[i] \in DigitChars) /\ IsUpper(s[i + 1])
       \/ IsUpper(s[i]) /\ IsUpper(s[i + 1]) /\ i + 2 <= Len(s) /\ IsLower(s[i + 2])

RECURSIVE SnakeFrom(_, _, _, _)
SnakeFrom(s, i, out, sep) ==
    IF i > Len(s) THEN out
    ELSE IF ~IsAlnum(s[i]) THEN SnakeFrom(s, i + 1, out, TRUE)
    ELSE SnakeFrom(s, i + 1,
                   (IF out # <<>> /\ sep THEN out \o <<"_">> ELSE out) \o <<ToLower(s[i])>>,
                   SplitsAfter(s, i))

\* Lower-casing with no word breaks at all.
SnakeCase_NoSplit(s) == [i \in 1..Len(s) |-> ToLower(s[i])]

\* snakeCase(key): the words of key (split at the word breaks and at every run
\* of characters other than letters and digits, /[^A-Z0-9]+/gi) in lower case,
\* joined by "_".
SnakeCase(s) == SnakeFrom(s, 1, <<>>, FALSE)

Separators == {"_", ".", "-", " "}

RECURSIVE StripLeading(_)
StripLeading(s) == IF s # <<>> /\ s[1] \in Separators THEN StripLeading(Tail(s)) ELSE s

\* replace(/[_.\- ]+([\p{Alpha}\p{N}_]|$)/gu, (_, p1) => toUpperCase(p1))
RECURSIVE SeparatorsAndIdentifier(_, _, _)
SeparatorsAndIdentifier(s, i, afterSep) ==
    IF i > Len(s) THEN <<>>
    ELSE IF s[i] \in Separators THEN SeparatorsAndIdentifier(s, i + 1, TRUE)
    ELSE <<IF afterSep THEN ToUpper(s[i]) ELSE s[i]>> \o SeparatorsAndIdentifier(s, i + 1, FALSE)

\* replace(/\d+([\p{Alpha}\p{N}_]|$)/gu, m => toUpperCase(m)); camelcase 8 leaves
\* the match alone when the character after it is "_" or "-".
NumbersAndIdentifier(s, ver) ==
    [i \in 1..Len(s) |->
        IF /\ i > 1 /\ s[i - 1] \in DigitChars
           /\ ~(ver = 8 /\ i < Len(s) /\ s[i + 1] \in {"_", "-"})
        THEN ToUpper(s[i]) ELSE s[i]]

\* The releases of camelcase that differ on the keys below: 5 keeps a key that
\* is one separator, 8 runs the number rule before the separator rule.
Versions == {5, 7, 8}

\* camelCase(key) for a key without upper-case letters, as snakeCase produces
\* them and the API sends them (preserveCamelCase is not entered).
CamelCase(s, ver) ==
    IF Len(s) = 0 THEN <<>>
    ELSE IF Len(s) = 1
    THEN (IF s[1] \in Separators /\ ver # 5 THEN <<>> ELSE <<ToLower(s[1])>>)
    ELSE LET input == [i \in 1..Len(StripLeading(s)) |-> ToLower(StripLeading(s)[i])]
         IN  IF ver = 8
             THEN SeparatorsAndIdentifier(NumbersAndIdentifier(input, ver), 1, FALSE)
             ELSE NumbersAndIdentifier(SeparatorsAndIdentifier(input, 1, FALSE), ver)

ObjectValue(entries) == [t |-> "object", s |-> <<>>, n |-> <<>>, kids |-> entries]

ArrayValue(items) ==
    [t |-> "array", s |-> <<>>, n |-> <<>>, kids |-> [i \in 1..Len(items) |-> [k |-> <<>>, val |-> items[i]]]]

\* target[key] = value on an object built entry by entry.
Assign(entries, k, val) ==
    IF \E i \in 1..Len(entries) : entries[i].k = k
    THEN [i \in 1..Len(entries) |-> IF entries[i].k = k THEN Entry(k, val) ELSE entries[i]]
    ELSE Append(entries, Entry(k, val))

\* What a call that threw leaves in place of its result.
Thrown == OtherValue("throw")

\* snakecaseKeys throws on anything but a plain object or an array of plain objects.
snakecaseKeysThrows(v) ==
    IF v.t = "array" THEN \E i \in 1..Len(v.kids) : v.kids[i].val.t # "object"
    ELSE v.t # "object"

RECURSIVE SnakeDeep(_)
RECURSIVE SnakeEntries(_, _, _)
SnakeEntries(kids, i, acc) ==
    IF i > Len(kids) THEN acc
    ELSE SnakeEntries(kids, i + 1, Assign(acc, SnakeCase(kids[i].k), SnakeDeep(kids[i].val)))

SnakeDeep(v) ==
    IF v.t = "object" THEN [v EXCEPT !.kids = SnakeEntries(v.kids, 1, <<>>)]
    ELSE IF v.t = "array"
    THEN [v EXCEPT !.kids = [i \in 1..Len(v.kids) |-> Entry(<<>>, SnakeDeep(v.kids[i].val))]]
    ELSE v

\* snakecaseKeys(original, { deep: true })
snakecaseKeys(v) == IF snakecaseKeysThrows(v) THEN Thrown ELSE SnakeDeep(v)

RECURSIVE camelcaseKeys(_, _)
RECURSIVE CamelEntries(_, _, _, _)
CamelEntries(kids, i, acc, ver) ==
    IF i > Len(kids) THEN acc
    ELSE CamelEntries(kids, i + 1,
                      Assign(acc, CamelCase(kids[i].k, ver), camelcaseKeys(kids[i].val, ver)), ver)

\* camelcaseKeys(json, { deep: true }); a value that is no object is returned as it is.
camelcaseKeys(v, ver) ==
    IF v.t = "object" THEN [v EXCEPT !.kids = CamelEntries(v.kids, 1, <<>>, ver)]
    ELSE IF v.t = "array"
    THEN [v EXCEPT !.kids = [i \in 1..Len(v.kids) |-> Entry(<<>>, camelcaseKeys(v.kids[i].val, ver))]]
    ELSE v

(***************************************************************************)
(* The two conversions applied in turn to one value.                       *)
(***************************************************************************)
Ada == StringValue(<<"A", "d", "a">>)

\* The values converted: one-key objects for every key of up to MaxKeyLen of
\* the characters a, b, B, 1 and _ and for some keys of the application,
\* nested objects, two-key objects, arrays, and values that are no objects.
CaseInputs ==
    LET SampleKeys ==
            {<<"f", "i", "r", "s", "t", "N", "a", "m", "e">>,
             <<"l", "a", "s", "t", "N", "a", "m", "e">>,
             <<"c", "r", "e", "a", "t", "e", "d", "A", "t">>,
             <<"u", "s", "e", "r", "I", "D">>,
             <<"p", "r", "i", "c", "e">>}
        Keys == SampleKeys \cup UNION {[1..len -> {"a", "b", "B", "1", "_"}] : len \in 1..MaxKeyLen}
        Lovelace == StringValue(<<"L", "o", "v", "e", "l", "a", "c", "e">>)
    IN  {ObjectValue(<<Entry(k, Ada)>>) : k \in Keys}
            \cup {ObjectValue(<<Entry(k1, ObjectValue(<<Entry(k2, Ada)>>))>>) : k1, k2 \in SampleKeys}
            \cup {ObjectValue(<<Entry(p[1], Ada), Entry(p[2], Lovelace)>>) :
                    p \in {q \in (SampleKeys \cup {<<"a", "B">>})
                                    \X {<<"l", "a", "s", "t", "N", "a", "m", "e">>, <<"a", "_", "b">>} :
                                q[1] # q[2]}}
            \cup {ArrayValue(<<ObjectValue(<<Entry(k, Ada)>>), ObjectValue(<<Entry(k, Lovelace)>>)>>) :
                    k \in SampleKeys}
            \cup {ObjectValue(<<Entry(k, ArrayValue(<<Ada, NumberValue(5, 0)>>))>>) : k \in SampleKeys}
            \cup {Ada, NumberValue(5, 0), OtherValue("null"), ArrayValue(<<Ada>>), ArrayValue(<<>>)}

CasePick ==
    /\ kstage = "idle"
    /\ \E v \in CaseInputs, ver \in Versions : kin' = v /\ kver' = ver
    /\ kstage' = "picked"
    /\ UNCHANGED <<kmid, kout, pipeVars, normVars, uiVars, revVars, reqVars, respVars>>

CaseSnake ==
    /\ kstage = "picked"
    /\ kmid' = snakecaseKeys(kin)
    /\ kstage' = IF snakecaseKeysThrows(kin) THEN "failed" ELSE "snaked"
    /\ UNCHANGED <<kin, kout, kver, pipeVars, normVars, uiVars, revVars, reqVars, respVars>>

CaseCamel ==
    /\ kstage = "snaked"
    /\ kout' = camelcaseKeys(kmid, kver)
    /\ kstage' = "done"
    /\ UNCHANGED <<kin, kmid, kver, pipeVars, normVars, uiVars, revVars, reqVars, respVars>>

CaseNext == CasePick \/ CaseSnake \/ CaseCamel

CaseSpec == NormInit /\ [][CaseNext]_vars

(***************************************************************************)
(* Claims about the case conversions, checked under CaseSpec.              *)
(***************************************************************************)
RECURSIVE KeysOf(_)
KeysOf(v) ==
    IF v.t = "object"
    THEN UNION {{v.kids[i].k} \cup KeysOf(v.kids[i].val) : i \in 1..Len(v.kids)}
    ELSE IF v.t = "array" THEN UNION {KeysOf(v.kids[i].val) : i \in 1..Len(v.kids)}
    ELSE {}

\* [a-zA-Z][a-zA-Z0-9]*
IdentifierStyle(k) ==
    /\ Len(k) >= 1
    /\ IsLower(k[1]) \/ IsUpper(k[1])
    /\ \A i \in 1..Len(k) : IsAlnum(k[i])

\* C13 as stated: a value whose keys are all identifier-style comes back from
\* camel->snake followed by snake->camel as it went in, and a key that is not
\* identifier-style is passed through the conversion unchanged.
C13_RoundTrip ==
    /\ kstage \in {"failed", "done"} /\ (\A k \in KeysOf(kin) : IdentifierStyle(k)) =>
            kstage = "done" /\ kout = kin
    /\ kstage \in {"snaked", "done"} =>
            \A k \in KeysOf(kin) : ~IdentifierStyle(k) => k \in KeysOf(kmid)

\* An identifier that starts with a lower-case letter, has no two upper-case
\* letters side by side and no lower-case letter right after a digit.
LowerCamel(k) ==
    /\ IdentifierStyle(k) /\ IsLower(k[1])
    /\ \A i \in 1..(Len(k) - 1) :
        /\ ~(IsUpper(k[i]) /\ IsUpper(k[i + 1]))
        /\ ~(k[i] \in DigitChars /\ IsLower(k[i + 1]))

\* Lower-case letters and digits in words joined by single underscores.
SnakeForm(k) ==
    /\ \A i \in 1..Len(k) : IsLower(k[i]) \/ k[i] \in DigitChars \/ k[i] = "_"
    /\ k # <<>> => k[1] # "_" /\ k[Len(k)] # "_"
    /\ \A i \in 1..(Len(k) - 1) : ~(k[i] = "_" /\ k[i + 1] = "_")

\* C13: an object, or an array of objects, whose keys are all lower camel case
\* comes back from camel->snake followed by snake->camel as it went in; every
\* key, of that form or not, leaves camel->snake as lower-case words joined by
\* single underscores.
C13_RoundTripLowerCamel ==
    /\ kstage = "done" /\ (\A k \in KeysOf(kin) : LowerCamel(k)) => kout = kin
    /\ kstage \in {"snaked", "done"} => \A k \in KeysOf(kmid) : SnakeForm(k)
    /\ kstage = "failed" => kin.t # "object"

C13_Witness ==
    /\ kstage = "done"
    /\ kin = ObjectValue(<<Entry(<<"f", "i", "r", "s", "t", "N", "a", "m", "e">>, Ada)>>)
    /\ kmid = ObjectValue(<<Entry(<<"f", "i", "r", "s", "t", "_", "n", "a", "m", "e">>, Ada)>>)
    /\ kout = kin

(***************************************************************************)
(* hooks.beforeRequest (api/config.ts) applied to one outgoing request,    *)
(* and the fetch of the request it returns.  A body text is what           *)
(* JSON.parse makes of it (kind "json" and the value), an unparsable text, *)
(* the empty string, or no body at all (kind "null"); canonical says that  *)
(* the text is laid out as JSON.stringify lays it out.                     *)
(***************************************************************************)
JsonText(v, canonical) == [kind |-> "json", value |-> v, canonical |-> canonical]

PlainText(kind) == [kind |-> kind, value |-> OtherValue("undefined"), canonical |-> FALSE]

ContentTypes == {"application/json", "application/json; charset=utf-8", "text/plain", "none"}

\* request.headers.get("Content-Type")?.includes("application/json")
IsJsonContentType(ct) == ct \in {"application/json", "application/json; charset=utf-8"}

MkRequest(ct, text) == [contentType |-> ct, body |-> text, bodyUsed |-> FALSE]

\* JSON.parse(bodyText) of a parsable text: the value, its layout forgotten.
JSONParse(text) == text.value

JSONStringify(v) == JsonText(ToJSON(v), TRUE)

\* await request.text(): reading a body that is there marks the request used.
RequestAfterText(request) == [request EXCEPT !.bodyUsed = request.body.kind # "null"]

beforeRequest(request) ==
    IF ~IsJsonContentType(request.contentType) THEN request
    ELSE IF request.body.kind \in {"null", "empty"} THEN RequestAfterText(request)
    ELSE IF request.body.kind = "invalid" THEN RequestAfterText(request)
    ELSE IF snakecaseKeysThrows(JSONParse(request.body)) THEN RequestAfterText(request)
    ELSE MkRequest(request.contentType, JSONStringify(snakecaseKeys(JSONParse(request.body))))

\* What fetch transmits: the body of the request, or nothing when the request
\* was already read (a TypeError).
Fetch(request) == IF request.bodyUsed THEN PlainText("TypeError") ELSE request.body

ReqPick ==
    /\ qstage = "idle"
    /\ \E ct \in ContentTypes,
          text \in {JsonText(v, c) : v \in CaseInputs, c \in BOOLEAN}
                    \cup {PlainText("invalid"), PlainText("empty"), PlainText("null")} :
            qin' = MkRequest(ct, text)
    /\ qstage' = "picked"
    /\ UNCHANGED <<qout, qsent, pipeVars, normVars, uiVars, revVars, caseVars, respVars>>

ReqHook ==
    /\ qstage = "picked"
    /\ qout' = beforeRequest(qin)
    /\ qstage' = "hooked"
    /\ UNCHANGED <<qin, qsent, pipeVars, normVars, uiVars, revVars, caseVars, respVars>>

ReqFetch ==
    /\ qstage = "hooked"
    /\ qsent' = Fetch(qout)
    /\ qstage' = "sent"
    /\ UNCHANGED <<qin, qout, pipeVars, normVars, uiVars, revVars, caseVars, respVars>>

ReqNext == ReqPick \/ ReqHook \/ ReqFetch

ReqSpec == NormInit /\ [][ReqNext]_vars

\* C11: a request with a JSON content type and a non-empty JSON body is
\* transmitted with that body, every object key at every depth in snake case
\* and every value as it was.
C11_BodySnakeCased ==
    (qstage = "sent" /\ IsJsonContentType(qin.contentType) /\ qin.body.kind = "json") =>
        qsent.kind = "json" /\ qsent.value = SnakeDeep(qin.body.value)

\* C20: a request with a JSON content type whose body is empty or is not JSON
\* leaves beforeRequest as it entered it and is transmitted with its own body.
C20_OriginalTransmitted ==
    (qstage = "sent" /\ IsJsonContentType(qin.contentType)
        /\ qin.body.kind \in {"null", "empty", "invalid"}) =>
        qout = qin /\ qsent = qin.body

(***************************************************************************)
(* The case conversion of hooks.afterResponse (api/config.ts, the part     *)
(* after the refresh check) applied to one response, and the caller's      *)
(* response.json() on the response handed on.                              *)
(***************************************************************************)
RECURSIVE Join(_)
Join(chars) == IF chars = <<>> THEN "" ELSE chars[1] \o Join(Tail(chars))

\* JSON.parse(text, revivers): every property revived under its own name, the
\* items of an array under their index, the whole value under "".
RECURSIVE ReviveDeep(_, _, _)
ReviveDeep(v, key, env) ==
    IF v.t = "object"
    THEN [v EXCEPT !.kids = [i \in 1..Len(v.kids) |->
            Entry(v.kids[i].k, ReviveDeep(v.kids[i].val, Join(v.kids[i].k), env))]]
    ELSE IF v.t = "array"
    THEN [v EXCEPT !.kids = [i \in 1..Len(v.kids) |->
            Entry(<<>>, ReviveDeep(v.kids[i].val, Join(<<DigitChar(i - 1)>>), env))]]
    ELSE revivers(key, v, env)

\* parseJson: (text) => JSON.parse(text, revivers)
parseJson(text, env) == ReviveDeep(JSONParse(text), "", env)

MkWireResponse(status, ct, text) ==
    [status |-> status, headers |-> [contentType |-> ct, xRequestId |-> "r-1"],
     body |-> text, bodyUsed |-> FALSE]

\* A response built from the text alone: status 200 and no headers of the original.
Rewrap_Defaults(text, response) ==
    [status |-> 200, headers |-> [contentType |-> "text/plain", xRequestId |-> "none"],
     body |-> text, bodyUsed |-> FALSE]

\* new Response(text, response): status and headers are read off the original.
Rewrap(text, response) ==
    [status |-> response.status, headers |-> response.headers, body |-> text, bodyUsed |-> FALSE]

ResponseOk(response) == response.status >= 200 /\ response.status <= 299

\* The conversion; response.json() throws on a body that is not JSON, and has
\* read it by then.
camelcaseHook(response, env) ==
    IF ~IsJsonContentType(response.headers.contentType) THEN response
    ELSE IF response.body.kind # "json" THEN [response EXCEPT !.bodyUsed = TRUE]
    ELSE Rewrap(JSONStringify(camelcaseKeys(parseJson(response.body, env), env.ver)), response)

\* response.json() without the client's parseJson.
CallerJson_Plain(response, env) ==
    IF response.bodyUsed \/ response.body.kind = "invalid" THEN Thrown
    ELSE IF response.body.kind = "empty" THEN StringValue(<<>>)
    ELSE JSONParse(response.body)

\* The caller's response.json() on the response the client hands over: the
\* client's parseJson on the text, "" for an empty body, a rejection when the
\* body was already read or is not JSON.
CallerJson(response, env) ==
    IF response.bodyUsed \/ response.body.kind = "invalid" THEN Thrown
    ELSE IF response.body.kind = "empty" THEN StringValue(<<>>)
    ELSE parseJson(response.body, env)

\* The wire body {created_at: "2024-01-15T10:30:00Z", price: "12.50"}.
ExampleBody ==
    ObjectValue(<<Entry(<<"c", "r", "e", "a", "t", "e", "d", "_", "a", "t">>, StringValue(<<"2", "0", "2", "4", "-", "0", "1", "-", "1", "5", "T", "1", "0", ":", "3", "0", ":", "0", "0", "Z">>)),
                  Entry(<<"p", "r", "i", "c", "e">>, StringValue(<<"1", "2", ".", "5", "0">>))>>)

\* The responses received: 200 JSON responses with one-property bodies for
\* every wire key of up to MaxKeyLen of the characters a, b, 1 and _ and for
\* some keys of the API, nested and scalar bodies, and the example body, a
\* body that is no JSON and an empty one under every status and content type.
WireResponses ==
    LET WireSampleKeys ==
            {<<"c", "r", "e", "a", "t", "e", "d", "_", "a", "t">>,
             <<"p", "r", "i", "c", "e">>,
             <<"t", "i", "m", "e", "s", "t", "a", "m", "p">>,
             <<"o", "p", "e", "n", "_", "l", "e", "v", "e", "l">>,
             <<"n", "a", "m", "e">>}
        WireKeys == WireSampleKeys \cup UNION {[1..len -> {"a", "b", "1", "_"}] : len \in 1..MaxKeyLen}
        CreatedAtText == ExampleBody.kids[1].val
        PriceText == ExampleBody.kids[2].val
        WireValues ==
            {CreatedAtText, PriceText,
             StringValue(<<"2", "0", "2", "4", "-", "1", "2", "-", "3", "1", "T", "2", "3", ":", "3", "0", ":", "0", "0", "-", "0", "5", ":", "0", "0">>),
             StringValue(<<"2", "0", "2", "4", "-", "1", "3", "-", "0", "1", "T", "1", "0", ":", "3", "0", ":", "0", "0", "Z">>),
             StringValue(<<"2", "0", "2", "4", "-", "0", "2", "-", "3", "0", "T", "1", "0", ":", "3", "0", ":", "0", "0">>),
             StringValue(<<"-", "3">>), StringValue(<<"a", "b", "c">>), NumberValue(5, 0), OtherValue("null")}
        WireBodies ==
            {JsonText(ObjectValue(<<Entry(k, v)>>), FALSE) : k \in WireKeys, v \in {CreatedAtText, PriceText}}
                \cup {JsonText(ObjectValue(<<Entry(k, v)>>), FALSE) : k \in WireSampleKeys, v \in WireValues}
                \cup {JsonText(ArrayValue(<<ObjectValue(<<Entry(k, ExampleBody)>>)>>), FALSE) : k \in WireSampleKeys}
                \cup {JsonText(v, TRUE) : v \in {ExampleBody, PriceText, OtherValue("null")}}
    IN  {MkWireResponse(200, "application/json", text) : text \in WireBodies}
            \cup {MkWireResponse(status, ct, text) :
                    status \in {200, 401, 404, 500}, ct \in ContentTypes,
                    text \in {JsonText(ExampleBody, TRUE), PlainText("invalid"), PlainText("empty")}}

RespPick ==
    /\ wstage = "idle"
    /\ \E response \in WireResponses,
          env \in [lenientDay : BOOLEAN, legacyParse : {FALSE}, tz : {-300, 0, 120}, ver : Versions] :
            win' = response /\ wenv' = env
    /\ wstage' = "received"
    /\ UNCHANGED <<wmid, wout, pipeVars, normVars, uiVars, revVars, reqVars, caseVars>>

RespHook ==
    /\ wstage = "received"
    /\ wmid' = camelcaseHook(win, wenv)
    /\ wstage' = "handed"
    /\ UNCHANGED <<win, wenv, wout, pipeVars, normVars, uiVars, revVars, reqVars, caseVars>>

RespJson ==
    /\ wstage = "handed"
    /\ wout' = CallerJson(wmid, wenv)
    /\ wstage' = "read"
    /\ UNCHANGED <<win, wenv, wmid, pipeVars, normVars, uiVars, revVars, reqVars, caseVars>>

RespNext == RespPick \/ RespHook \/ RespJson

RespSpec == NormInit /\ [][RespNext]_vars

\* C12: a response with a JSON content type leaves the conversion with the
\* status and the headers it came with, so an error status stays an error
\* status, and, when its body is JSON, with that body's keys at every depth in
\* camel case.
C12_Rewrapped ==
    (wstage \in {"handed", "read"} /\ IsJsonContentType(win.headers.contentType)) =>
        /\ wmid.status = win.status
        /\ wmid.headers = win.headers
        /\ ResponseOk(wmid) <=> ResponseOk(win)
        /\ win.body.kind = "json" =>
            /\ wmid.body.kind = "json" /\ ~wmid.bodyUsed
            /\ KeysOf(wmid.body.value) = {CamelCase(k, wenv.ver) : k \in KeysOf(win.body.value)}

C12_Witness ==
    /\ wstage = "handed"
    /\ win = MkWireResponse(401, "application/json", JsonText(ExampleBody, TRUE))
    /\ wmid.status = 401 /\ ~ResponseOk(wmid)
    /\ KeysOf(wmid.body.value) = {<<"c", "r", "e", "a", "t", "e", "d", "A", "t">>, <<"p", "r", "i", "c", "e">>}

\* What the caller is to get for the wire body {created_at, price} of the example.
ExampleResult ==
    ObjectValue(<<Entry(<<"c", "r", "e", "a", "t", "e", "d", "A", "t">>, DateValue(2024, 1, 15, 630)),
                  Entry(<<"p", "r", "i", "c", "e">>, NumberValue(125, 1))>>)

\* C19: what the caller reads from a JSON response is revived under the names
\* the parsed text carries: the wire body {created_at: "2024-01-15T10:30:00Z",
\* price: "12.50"} is read as createdAt a date and price the number 12.5, and a
\* property sent under any wire name is read under its camel-case name with the
\* value the reviver gives for that name.
C19_RevivedUnderCamelNames ==
    (wstage = "read" /\ IsJsonContentType(win.headers.contentType) /\ win.body.kind = "json") =>
        /\ win.body.value = ExampleBody => wout = ExampleResult
        /\ (win.body.value.t = "object" /\ Len(win.body.value.kids) = 1) =>
            LET k == CamelCase(win.body.value.kids[1].k, wenv.ver)
                v == win.body.value.kids[1].val
            IN  wout = ObjectValue(<<Entry(k, revivers(Join(k), v, wenv))>>)

C19_Witness ==
    /\ wstage = "read"
    /\ win = MkWireResponse(200, "application/json", JsonText(ExampleBody, TRUE))
    /\ wout = ExampleResult

\* C21: afterResponse hands a response whose content type is not JSON on
\* untouched, and one with a JSON content type whose body is not JSON on as
\* the response it received, with its status, its headers and a body that
\* can still be read.
C21_OriginalStillReadable ==
    wstage \in {"handed", "read"} =>
        /\ ~IsJsonContentType(win.headers.contentType) => wmid = win
        /\ (IsJsonContentType(win.headers.contentType) /\ win.body.kind # "json") =>
            /\ wmid.status = win.status /\ wmid.headers = win.headers
            /\ wmid.body = win.body /\ ~wmid.bodyUsed

\* C27: the response to auth/token is checked by the same afterResponse, and
\* because isRefreshing is true for as long as a refresh call is out, a 401
\* to it never starts a further refresh; a refresh call is started only by a
\* 401 seen while isRefreshing is false, and by one call each.
C27_NoNestedRefresh ==
    /\ [](\A r \in Callers : rpc[r] # "nested" /\ (rpc[r] # "none" => isRefreshing))
    /\ [][\A r \in Callers :
            (rpc[r] = "none" /\ rpc'[r] # "none") =>
                /\ rpc'[r] = "sent" /\ resp'[r].status = 401 /\ ~isRefreshing
                /\ \A q \in Callers \ {r} : rpc'[q] = rpc[q]]_vars

C27_Witness ==
    \E r \in Callers :
        /\ rpc[r] = "responded" /\ rresp[r].status = 401
        /\ isRefreshing /\ pc[r] = "awaitRefresh"

\* C28: a value revived a second time under its key, as the first revival
\* left it or as JSON.stringify wrote that out, is the value the first revival
\* gave.
C28_RevivalIdempotent ==
    rstage = "again" => rout = revivers(rkey, rval, renv)

C28_Witness ==
    /\ rstage = "again" /\ rkey = "createdAt"
    /\ rval = StringValue(<<"2", "0", "2", "4", "-", "1", "2", "-", "3", "1", "T",
                            "2", "3", ":", "3", "0", ":", "0", "0", "-", "0", "5", ":", "0", "0">>)
    /\ rout = DateValue(2025, 1, 1, 270)



\* ------------------------------------------------------- usePagination
\* the pages and page sizes a caller passes; LogsPagination offers [10, 20, 50, 100]
MaxPage == 8

otherVars == <<pipeVars, normVars, revVars, reqVars, caseVars, respVars, debounceVars, sessionVars>>

filterVars == <<fromDate, toDate, type, lastHours>>

usePagination_MemoOnPage(p, ps) ==
    /\ page' = p /\ pageSize' = ps
    /\ offset' = IF <<p>> = <<page>> THEN offset ELSE (p - 1) * ps

\* One render of the hook after the two states became p and ps: useState returns them, and
\* useMemo(() => (page - 1) * pageSize, [page, pageSize]) keeps the offset it has unless one
\* of the two dependencies differs from the previous render's.
usePagination(p, ps) ==
    /\ page' = p /\ pageSize' = ps
    /\ offset' = IF <<p, ps>> = <<page, pageSize>> THEN offset ELSE (p - 1) * ps

setPage(newPage) ==
    /\ usePagination(newPage, pageSize)
    /\ uiop' = "setPage"
    /\ UNCHANGED <<filterVars, otherVars>>

setPageSize(newPageSize) ==
    /\ usePagination(page, newPageSize)
    /\ uiop' = "setPageSize"
    /\ UNCHANGED <<filterVars, otherVars>>

handlePageChange(newPage) ==
    /\ usePagination(newPage, pageSize)
    /\ uiop' = "handlePageChange"
    /\ UNCHANGED <<filterVars, otherVars>>

handlePageSizeChange_KeepsPage(newPageSize) ==
    /\ usePagination(page, newPageSize)
    /\ uiop' = "handlePageSizeChange"
    /\ UNCHANGED <<filterVars, otherVars>>

\* setPageSize(newPageSize); setPage(1)
handlePageSizeChange(newPageSize) ==
    /\ usePagination(1, newPageSize)
    /\ uiop' = "handlePageSizeChange"
    /\ UNCHANGED <<filterVars, otherVars>>

\* setPage(initialPage); setPageSize(initialPageSize)
reset ==
    /\ usePagination(options.initialPage, options.initialPageSize)
    /\ uiop' = "reset"
    /\ UNCHANGED <<filterVars, otherVars>>

PageNext ==
    \/ \E newPage \in 0..MaxPage : setPage(newPage)
    \/ \E newPageSize \in {10, 20, 50, 100} : setPageSize(newPageSize)
    \/ \E newPage \in 1..MaxPage : handlePageChange(newPage)
    \/ \E newPageSize \in {10, 20, 50, 100} : handlePageSizeChange(newPageSize)
    \/ reset

PageSpec == NormInit /\ [][PageNext]_vars

\* C22: whatever sequence of setPage, setPageSize, handlePageChange, handlePageSizeChange
\* and reset ran, the offset the hook returns is (page - 1) * pageSize for the page and
\* page size it returns with it, and right after reset() the two are the initial ones.
C22_OffsetAndReset ==
    /\ offset = (page - 1) * pageSize
    /\ uiop = "reset" => page = 1 /\ pageSize = 20

\* a page size was set on a later page: the offset followed it
C22_Witness == uiop = "setPageSize" /\ page = 3 /\ pageSize = 50 /\ offset = 100

\* ------------------------------------------------------ the logs screen
onFromDateChange(date) ==
    /\ fromDate' = date
    /\ usePagination(1, pageSize)
    /\ uiop' = "onFromDateChange"
    /\ UNCHANGED <<toDate, type, lastHours, otherVars>>

onToDateChange(date) ==
    /\ toDate' = date
    /\ usePagination(1, pageSize)
    /\ uiop' = "onToDateChange"
    /\ UNCHANGED <<fromDate, type, lastHours, otherVars>>

onTypeChange_KeepsPage(newType) ==
    /\ type' = newType
    /\ uiop' = "onTypeChange"
    /\ UNCHANGED <<page, pageSize, offset, fromDate, toDate, lastHours, otherVars>>

\* setType(newType); resetPagination()
onTypeChange(newType) ==
    /\ type' = newType
    /\ usePagination(1, pageSize)
    /\ uiop' = "onTypeChange"
    /\ UNCHANGED <<fromDate, toDate, lastHours, otherVars>>

\* The last-hours input changed to the text `value` at the time `now`: the filter bar
\* calls onFromDateChange and onToDateChange for a positive number of hours, and
\* onLastHoursChange in any case; each of the three ends with resetPagination().
handleLastHoursChange(value, now) ==
    LET start == IF CharAt(value, 1) \in {"-", "+"} THEN 2 ELSE 1
        ni == DigitRun(value, start)
        magnitude == DigitsValue(value, start, ni)
        parseInt == IF ni = 0 THEN NaN
                    ELSE NumberValue(IF CharAt(value, 1) = "-" THEN 0 - magnitude ELSE magnitude, 0)
        hours == IF value = <<>> THEN OtherValue("undefined") ELSE parseInt
        positive == hours.t = "number" /\ hours.n # <<>> /\ hours.n[1] > 0
        from == DateValue(now.n[1], now.n[2], now.n[3], now.n[4] - hours.n[1] * 60)
    IN  /\ fromDate' = IF positive THEN from ELSE fromDate
        /\ toDate' = IF positive THEN now ELSE toDate
        /\ lastHours' = hours
        /\ usePagination(1, pageSize)
        /\ uiop' = "handleLastHoursChange"
        /\ UNCHANGED <<type, otherVars>>

handleReset ==
    /\ fromDate' = OtherValue("undefined")
    /\ toDate' = OtherValue("undefined")
    /\ type' = "ALL"
    /\ lastHours' = OtherValue("undefined")
    /\ usePagination(options.initialPage, options.initialPageSize)
    /\ uiop' = "handleReset"
    /\ UNCHANGED otherVars

LogsNext ==
    \/ \E date \in {OtherValue("undefined"), DateValue(2025, 1, 14, 0), DateValue(2025, 1, 15, 0)} :
           onFromDateChange(date)
    \/ \E date \in {OtherValue("undefined"), DateValue(2025, 1, 15, 0), DateValue(2025, 1, 16, 0)} :
           onToDateChange(date)
    \/ \E newType \in {"ALL", "ERROR", "TRADE"} : onTypeChange(newType)
    \/ \E value \in {<<>>, <<"0">>, <<"1">>, <<"2">>, <<"-", "1">>, <<"1", ".", "5">>} :
           handleLastHoursChange(value, DateValue(2025, 1, 15, 600))
    \/ handleReset
    \/ \E newPage \in 1..MaxPage : handlePageChange(newPage)
    \/ \E newPageSize \in {10, 20, 50, 100} : handlePageSizeChange(newPageSize)

LogsSpec == NormInit /\ [][LogsNext]_vars

\* C23: on the logs screen a step that changes the page size or a filter (from date, to
\* date, type, last hours), and every run of a filter callback or of the page-size handler,
\* leaves the page at 1 and the offset of the next logs query at 0; handlePageChange
\* leaves the page size and the four filters as they were.
C23_FiltersResetPage ==
    /\ [][(\/ pageSize' # pageSize
           \/ filterVars' # filterVars
           \/ uiop' \in {"onFromDateChange", "onToDateChange", "onTypeChange",
                         "handleLastHoursChange", "handlePageSizeChange"})
          => page' = 1 /\ offset' = 0]_vars
    /\ [][uiop' = "handlePageChange" => UNCHANGED <<pageSize, filterVars>>]_vars

\* the type filter was changed while a later page was shown
C23_Witness == uiop = "onTypeChange" /\ type = "ERROR" /\ page = 1 /\ offset = 0 /\ pageSize = 50


\* --------------------------------------------------------- useDebounce
debounceRest == <<pipeVars, normVars, revVars, reqVars, caseVars, respVars, pageVars, sessionVars>>

useDebounce_NoCleanup(value, delay) ==
    /\ <<value, delay>> # <<inputValue, inputDelay>>
    /\ inputValue' = value /\ inputDelay' = delay
    /\ timers' = timers \cup {[value |-> value, left |-> delay]}
    /\ held' = IF value # inputValue THEN 0 ELSE held
    /\ UNCHANGED <<debouncedValue, debounceRest>>

\* A render of the hook with arguments of which one differs from the previous render's: the
\* effect's dependencies [value, delay] changed, so the cleanup of the previous effect runs
\* clearTimeout(handler) on the one timeout that effect set, and the effect sets a new one.
\* A render with the same arguments runs neither and changes nothing.
useDebounce(value, delay) ==
    /\ <<value, delay>> # <<inputValue, inputDelay>>
    /\ inputValue' = value /\ inputDelay' = delay
    /\ timers' = {[value |-> value, left |-> delay]}
    /\ held' = IF value # inputValue THEN 0 ELSE held
    /\ UNCHANGED <<debouncedValue, debounceRest>>

\* One tick of the clock: every timeout that is set comes one tick closer to being due.
DebounceTick ==
    /\ held < MaxDelay \/ \E t \in timers : t.left > 0
    /\ timers' = {[t EXCEPT !.left = IF t.left > 0 THEN t.left - 1 ELSE 0] : t \in timers}
    /\ held' = IF held < MaxDelay THEN held + 1 ELSE held
    /\ UNCHANGED <<inputValue, inputDelay, debouncedValue, debounceRest>>

\* A timeout that is due runs its callback: setDebouncedValue(value), with the value of the
\* render whose effect set it. The render that follows has the same arguments.
DebounceFire ==
    \E t \in timers :
        /\ t.left = 0
        /\ debouncedValue' = t.value
        /\ timers' = timers \ {t}
        /\ UNCHANGED <<inputValue, inputDelay, held, debounceRest>>

DebounceNext ==
    \/ \E value \in {"", "a", "ab"}, delay \in 0..MaxDelay : useDebounce(value, delay)
    \/ DebounceTick
    \/ DebounceFire

\* the clock advances and a timeout that is due is run by the event loop
DebounceSpec == NormInit /\ [][DebounceNext]_vars /\ WF_vars(DebounceTick) /\ WF_vars(DebounceFire)

\* C24: the debounced value only ever changes to the current input, and only when that
\* input has been the same for at least the delay; once the input value changes, no update
\* set before the change is pending any more (the only pending one is for the new value,
\* with the whole delay ahead); and if the arguments stay as they are from some point on,
\* the debounced value is the latest input from some point on.
C24_Debounced ==
    /\ [][debouncedValue' # debouncedValue
          => debouncedValue' = inputValue /\ held >= inputDelay]_vars
    /\ [][inputValue' # inputValue
          => \A t \in timers' : t.value = inputValue' /\ t.left = inputDelay']_vars
    /\ [](\A t \in timers : t.value = inputValue)
    /\ \A value \in {"", "a", "ab"} : \A delay \in 0..MaxDelay :
           <>[](inputValue = value /\ inputDelay = delay) => <>[](debouncedValue = value)

\* the input went to "a" and on to "ab", and only "ab" arrived, after the delay
C24_Witness ==
    inputValue = "ab" /\ debouncedValue = "ab" /\ inputDelay = MaxDelay /\ held = MaxDelay /\ timers = {}


\* ------------------------------------------- the dashboard and the logout
sessionRest == <<pipeVars, normVars, revVars, reqVars, caseVars, respVars, pageVars, debounceVars>>

\* What one of the provider's three queries does between renders, and the render that
\* follows while the provider is mounted: a fetch settles with data or with an error; a
\* query at rest is fetched again; a query that is no longer in the cache is built anew by
\* the next render and starts pending.
QueryUpdate(k) ==
    /\ \/ /\ k \in cache /\ query[k].fetchStatus = "fetching"
          /\ \E outcome \in {"success", "error"} :
                 query' = [query EXCEPT ![k] = [status |-> outcome, fetchStatus |-> "idle"]]
          /\ UNCHANGED cache
       \/ /\ k \in cache /\ query[k].fetchStatus = "idle" /\ view # "login"
          /\ query' = [query EXCEPT ![k].fetchStatus = "fetching"]
          /\ UNCHANGED cache
       \/ /\ k \notin cache /\ view # "login"
          /\ query' = [query EXCEPT ![k] = [status |-> "pending", fetchStatus |-> "fetching"]]
          /\ cache' = cache \cup {k}
    /\ view' = IF view = "login" THEN "login" ELSE DashboardProvider(query')
    /\ UNCHANGED <<mutation, logoutRequest, sessionRest>>

\* logoutMutation.mutate(...) from a button inside the dashboard content, which is
\* disabled while the mutation is pending: mutationFn sends POST auth/logout.
LogoutMutate ==
    /\ view = "content" /\ mutation # "pending"
    /\ mutation' = "pending"
    /\ logoutRequest' = "sent"
    /\ UNCHANGED <<query, view, cache, sessionRest>>

\* The promise of logout() settles: api.post and response.json() gave a value, or one of
\* the two threw.
LogoutRespond(outcome) ==
    /\ logoutRequest = "sent"
    /\ logoutRequest' = outcome
    /\ UNCHANGED <<query, view, mutation, cache, sessionRest>>

onSettled_OnSuccessOnly ==
    /\ mutation = "pending" /\ logoutRequest \in {"resolved", "rejected"}
    /\ cache' = IF logoutRequest = "resolved" THEN {} ELSE cache
    /\ mutation' = IF logoutRequest = "resolved" THEN "success" ELSE "error"
    /\ \E navigates \in (IF logoutRequest = "resolved" THEN {TRUE} ELSE BOOLEAN) :
           view' = IF navigates THEN "login" ELSE view
    /\ UNCHANGED <<query, logoutRequest, sessionRest>>

\* The mutation runs its onSettled option, queryClient.clear(), then takes the status of
\* the outcome; the caller's own callback navigates to the login page on success (the
\* sidebar) or on either outcome (the settings pages).
onSettled ==
    /\ mutation = "pending" /\ logoutRequest \in {"resolved", "rejected"}
    /\ cache' = {}
    /\ mutation' = IF logoutRequest = "resolved" THEN "success" ELSE "error"
    /\ \E navigates \in (IF logoutRequest = "resolved" THEN {TRUE} ELSE BOOLEAN) :
           view' = IF navigates THEN "login" ELSE view
    /\ UNCHANGED <<query, logoutRequest, sessionRest>>

SessionNext ==
    \/ \E k \in DOMAIN query : QueryUpdate(k)
    \/ LogoutMutate
    \/ \E outcome \in {"resolved", "rejected"} : LogoutRespond(outcome)
    \/ onSettled

SessionSpec == NormInit /\ [][SessionNext]_vars

\* C25: the provider shows the dashboard content only while every one of the three
\* queries has succeeded (none pending, none in error), and whenever one of them is in
\* error the login page is what is shown, also while another one is still pending.
C25_ContentOnlyWhenLoaded ==
    /\ view = "content" => \A k \in DOMAIN query : query[k].status = "success"
    /\ (\E k \in DOMAIN query : query[k].status = "error") => view = "login"

\* one query failed while another was still pending, and the login page is shown
C25_Witness ==
    /\ view = "login" /\ mutation = "idle"
    /\ \E k \in DOMAIN query : query[k].status = "error"
    /\ \E k \in DOMAIN query : query[k].status = "pending"

\* C26: in the step in which the logout mutation leaves "pending" for "success" or for
\* "error" the query cache ends up empty, and no step takes a key out of the cache unless
\* the logout request of a pending mutation has settled.
C26_ClearedOnSettle ==
    /\ [][(mutation = "pending" /\ mutation' \in {"success", "error"}) => cache' = {}]_vars
    /\ [][~(cache \subseteq cache')
          => mutation = "pending" /\ logoutRequest \in {"resolved", "rejected"}]_vars

\* a logout whose request failed settled, and the cache that held the queries is empty
C26_Witness == mutation = "error" /\ logoutRequest = "rejected" /\ cache = {} /\ view = "content"

====
